---- MODULE Spec2Model ----
(***************************************************************************)
(* Model of the watsonx Orchestrate trigger adapters of superbob:          *)
(*   - the SDK tool trigger_wxo_agent (src/wxo_agent_trigger_tool.py),     *)
(*     whose polling loop is modelled step by step (PollSpec);             *)
(*   - the HTTP client WXOAgentTrigger and its CLI (src/superbob/cli.py)   *)
(*     and the CLI wrapper (src/scripts/bob_wxo_cli_wrapper.py), whose     *)
(*     operations are modelled one action per call (Spec);                 *)
(*   - both together, one call at a time, for a configured instance with   *)
(*     a valid cached token (AllSpec);                                     *)
(*   - the table parser of the CLI wrapper, over the tables the            *)
(*     orchestrate CLI prints (WrapperSpec);                               *)
(*   - two client processes that load and refresh the token side by side   *)
(*     on one credentials file, a step at a time (RaceSpec).               *)
(* Python dicts are records whose DOMAIN is the set of keys present; text  *)
(* that the code inspects character by character is a sequence of          *)
(* one-character strings, other text is a string.                          *)
(***************************************************************************)
EXTENDS Integers, Sequences, FiniteSets, TLC

\* ------------------------------------------------------------------ bounds
MaxTimeout == 5      \* largest timeout a caller passes to the SDK tool
MaxClock == 1        \* latest wall-clock reading at which a trigger starts
ScriptLen == 2       \* replies the mocked status endpoint scripts (last one repeats)
MaxCalls == 2        \* trigger_agent calls by name that one client object serves

\* ------------------------------------------------------- program constants
PollInterval == 2    \* time.sleep(2)

\* --------------------------------------------------------- dict helpers
EmptyDict == <<>>
None == "None"

\* dict.get(k, default)
Get(d, k, default) == IF k \in DOMAIN d THEN d[k] ELSE default

Has(d, k) == k \in DOMAIN d

\* Python truthiness of a text value that may be None
Truthy(v) == v # None /\ v # ""

Min(a, b) == IF a <= b THEN a ELSE b

\* ------------------------------------------------------------- agent names
Rep(c, n) == [i \in 1..n |-> c]

\* str() of a text kept as a sequence of characters
RECURSIVE Str(_)
Str(s) == IF s = <<>> THEN "" ELSE s[1] \o Str(Tail(s))

NameBob == <<"B", "o", "b">>
NameBobLower == <<"b", "o", "b">>
NameAda == <<"A", "d", "a">>

\* =========================================================================
\* The SDK tool: trigger_wxo_agent
\* =========================================================================
VARIABLES
    clock,              \* time.time(); it advances with time.sleep and between calls,
                        \* a status query is answered at once (a mocked endpoint)
    poll_pc,            \* position of the tool call: idle, loop, query, sleep, done
    agent_name,         \* argument
    wait_for_response,  \* argument
    timeout,            \* argument
    run_id,             \* run_data.get('id')
    start_time,         \* time.time() when polling began
    script,             \* what the status endpoint answers to the 1st, 2nd, ... query
    queries,            \* status queries issued in this call
    query_times,        \* elapsed time (time.time() - start_time) at each query
    observed,           \* run_status of every answer received
    outstanding,        \* status queries issued and not yet answered
    tool_result         \* the dict the call returned (EmptyDict while it runs)

pollVars == <<clock, poll_pc, agent_name, wait_for_response, timeout, run_id,
              start_time, script, queries, query_times, observed, outstanding,
              tool_result>>

\* The HTTP client WXOAgentTrigger, its CLI and their environment
VARIABLES
    environ,            \* os.environ: which of WXO_INSTANCE, WXO_API_KEY are set
    credentials,        \* the file at CREDENTIALS_PATH
    constructed,        \* a WXOAgentTrigger object exists
    token,              \* self.token
    headers,            \* self.headers
    call,               \* the operation being returned from, with its arguments
    result,             \* the dict the operation returned
    raised,             \* the message of an exception the operation let out (None if none)
    effects,            \* HTTP requests, subprocesses and file reads of the operation
    stdout,             \* what main() printed
    exit_code,          \* the exit status of main()
    named_calls,        \* history: trigger_agent calls on this client that passed a name
    lists_fetched       \* history: GET agents requests those calls have sent

clientVars == <<environ, credentials, constructed, token, headers, call, result, raised,
                effects, stdout, exit_code, named_calls, lists_fetched>>

\* Client processes started side by side on one credentials file
VARIABLES
    invocations         \* per process: where it is in _load_mcsp_token and what it holds

Processes == {1, 2}

\* a process that has not been started
NotStarted ==
    [pc |-> "start", cached |-> None, returncode |-> 0 - 1, token |-> None,
     raised |-> None]

NoCall == [op |-> "none"]

\* no client object, nothing called yet
ClientIdle ==
    /\ constructed = FALSE
    /\ token = None
    /\ headers = EmptyDict
    /\ call = NoCall
    /\ result = EmptyDict
    /\ raised = None
    /\ effects = <<>>
    /\ stdout = <<>>
    /\ exit_code = 0
    /\ named_calls = 0
    /\ lists_fetched = 0

Timeouts == (0 - 1)..MaxTimeout

ToolAgentNames == {NameBob}

\* what client.create_run answers: the run data, or an exception
Ok(data) == [raises |-> FALSE, data |-> data]
Raise(msg) == [raises |-> TRUE, msg |-> msg]

CreateRunReplies == {Ok([id |-> "run-1"]), Ok(EmptyDict), Raise("connection refused")}

\* what client.get_run_status answers
StatusData ==
    { [status |-> "running"],
      EmptyDict,
      [status |-> "completed", output |-> [text |-> "hi"]],
      [status |-> "completed"],
      [status |-> "failed", error |-> "boom"],
      [status |-> "failed", error |-> ""],
      [status |-> "failed"] }

StatusReplies == {Ok(d) : d \in StatusData} \cup {Raise("read timed out")}

Scripts == [1..ScriptLen -> StatusReplies]

\* the k-th answer of the status endpoint
Reply(k) == script[Min(k, ScriptLen)]

\* the number of polls a timeout of MaxTimeout allows, plus one: the model stops
\* issuing queries there so that a loop that never ends stays finite
QueryCap == ((MaxTimeout + PollInterval - 1) \div PollInterval) + 1

\* mutant of WithinDeadline: the deadline itself still counts as within it
WithinDeadlineInclusive(now, start, limit) == now - start <= limit

\* while time.time() - start_time < timeout
WithinDeadline(now, start, limit) == now - start < limit

\* mutant of Sleep: the clock does not advance
SleepNoAdvance(now) == now

\* time.sleep(2)
Sleep(now) == now + PollInterval

StartedResult(an, rid) ==
    [success |-> TRUE, agent_name |-> an, run_id |-> rid, status |-> "started",
     message |-> "Agent " \o Str(an) \o " started successfully"]

CompletedResult(an, rid, status_data) ==
    LET output == Get(status_data, "output", EmptyDict)
    IN  [success |-> TRUE, agent_name |-> an, run_id |-> rid, status |-> "completed",
         response |-> Get(output, "text", ""), full_output |-> output]

FailedResult(an, rid, status_data) ==
    [success |-> FALSE, agent_name |-> an, run_id |-> rid, status |-> "failed",
     error |-> Get(status_data, "error", "Agent run failed")]

TimeoutResult(an, rid, limit) ==
    [success |-> FALSE, agent_name |-> an, run_id |-> rid, status |-> "timeout",
     error |-> "Agent did not complete within " \o ToString(limit) \o " seconds"]

\* mutant of TriggerErrorResult: the run_id of the run already created is kept
TriggerErrorResultWithRun(an, msg) ==
    [success |-> FALSE, error |-> "Agent trigger error: " \o msg, agent_name |-> an,
     run_id |-> run_id]

\* except Exception as e
TriggerErrorResult(an, msg) ==
    [success |-> FALSE, error |-> "Agent trigger error: " \o msg, agent_name |-> an]

\* mutant of Classify: a failed run is polled again
ClassifyCompletedOnly(run_status) ==
    IF run_status = "completed" THEN "completed" ELSE "sleep"

\* what the loop does with an answer: "completed", "failed" or "sleep"
Classify(run_status) ==
    IF run_status = "completed" THEN "completed"
    ELSE IF run_status = "failed" THEN "failed"
    ELSE "sleep"

PollInit ==
    /\ clock = 0
    /\ poll_pc = "idle"
    /\ agent_name = NameBob
    /\ wait_for_response = TRUE
    /\ timeout = 0
    /\ run_id = None
    /\ start_time = 0
    /\ script = [k \in 1..ScriptLen |-> Ok([status |-> "running"])]
    /\ queries = 0
    /\ query_times = <<>>
    /\ observed = <<>>
    /\ outstanding = 0
    /\ tool_result = EmptyDict
    /\ environ = [WXO_INSTANCE |-> FALSE, WXO_API_KEY |-> FALSE]
    /\ credentials = [exists |-> FALSE, auth |-> EmptyDict]
    /\ ClientIdle
    /\ invocations = [p \in Processes |-> NotStarted]

\* trigger_wxo_agent is called: create_run, then either return or start polling
\* (the tool runs in the platform's agent runtime, a process that holds no
\* WXOAgentTrigger)
ToolTrigger ==
    /\ poll_pc = "idle"
    /\ call = NoCall
    /\ ~constructed
    /\ clock <= MaxClock
    /\ \E an \in ToolAgentNames, w \in BOOLEAN, t \in Timeouts,
          created \in CreateRunReplies, sc \in Scripts :
        /\ agent_name' = an
        /\ wait_for_response' = w
        /\ timeout' = t
        /\ queries' = 0
        /\ query_times' = <<>>
        /\ observed' = <<>>
        /\ outstanding' = 0
        /\ IF created.raises
             THEN /\ run_id' = None
                  /\ script' = script
                  /\ start_time' = start_time
                  /\ tool_result' = TriggerErrorResult(an, created.msg)
                  /\ poll_pc' = "done"
             ELSE /\ run_id' = Get(created.data, "id", None)
                  /\ IF ~w
                       THEN /\ script' = script
                            /\ start_time' = start_time
                            /\ tool_result' = StartedResult(an, run_id')
                            /\ poll_pc' = "done"
                       ELSE /\ script' = sc
                            /\ start_time' = clock
                            /\ tool_result' = EmptyDict
                            /\ poll_pc' = "loop"
    /\ UNCHANGED <<clock, clientVars, invocations>>

\* the loop condition holds: client.get_run_status(run_id) is called
PollSend ==
    /\ poll_pc = "loop"
    /\ WithinDeadline(clock, start_time, timeout)
    /\ queries < QueryCap
    /\ queries' = queries + 1
    /\ query_times' = Append(query_times, clock - start_time)
    /\ outstanding' = outstanding + 1
    /\ poll_pc' = "query"
    /\ UNCHANGED <<clock, agent_name, wait_for_response, timeout, run_id, start_time,
                   script, observed, tool_result, clientVars, invocations>>

\* the status query returns (or raises)
PollRecv ==
    /\ poll_pc = "query"
    /\ outstanding > 0
    /\ outstanding' = outstanding - 1
    /\ LET reply == Reply(queries)
       IN  IF reply.raises
             THEN /\ tool_result' = TriggerErrorResult(agent_name, reply.msg)
                  /\ poll_pc' = "done"
                  /\ observed' = observed
             ELSE LET status_data == reply.data
                      run_status == Get(status_data, "status", None)
                      todo == Classify(run_status)
                  IN  /\ observed' = Append(observed, run_status)
                      /\ IF todo = "completed"
                           THEN /\ tool_result' = CompletedResult(agent_name, run_id, status_data)
                                /\ poll_pc' = "done"
                           ELSE IF todo = "failed"
                           THEN /\ tool_result' = FailedResult(agent_name, run_id, status_data)
                                /\ poll_pc' = "done"
                           ELSE /\ tool_result' = tool_result
                                /\ poll_pc' = "sleep"
    /\ UNCHANGED <<clock, agent_name, wait_for_response, timeout, run_id, start_time,
                   script, queries, query_times, clientVars, invocations>>

\* time.sleep(2), then back to the loop condition
PollSleep ==
    /\ poll_pc = "sleep"
    /\ clock' = Sleep(clock)
    /\ poll_pc' = "loop"
    /\ UNCHANGED <<agent_name, wait_for_response, timeout, run_id, start_time, script,
                   queries, query_times, observed, outstanding, tool_result, clientVars, invocations>>

\* the loop condition fails: the timeout result is returned
PollTimedOut ==
    /\ poll_pc = "loop"
    /\ ~WithinDeadline(clock, start_time, timeout)
    /\ tool_result' = TimeoutResult(agent_name, run_id, timeout)
    /\ poll_pc' = "done"
    /\ UNCHANGED <<clock, agent_name, wait_for_response, timeout, run_id, start_time,
                   script, queries, query_times, observed, outstanding, clientVars, invocations>>

\* the caller has the returned dict; the call's frame is gone
ToolReturn ==
    /\ poll_pc = "done"
    /\ poll_pc' = "idle"
    /\ agent_name' = NameBob
    /\ wait_for_response' = TRUE
    /\ timeout' = 0
    /\ run_id' = None
    /\ start_time' = 0
    /\ script' = [k \in 1..ScriptLen |-> Ok([status |-> "running"])]
    /\ queries' = 0
    /\ query_times' = <<>>
    /\ observed' = <<>>
    /\ outstanding' = 0
    /\ tool_result' = EmptyDict
    /\ UNCHANGED <<clock, clientVars, invocations>>

\* time passes while no call is running
TimePasses ==
    /\ poll_pc = "idle"
    /\ call = NoCall
    /\ clock < MaxClock
    /\ clock' = clock + 1
    /\ UNCHANGED <<poll_pc, agent_name, wait_for_response, timeout, run_id, start_time,
                   script, queries, query_times, observed, outstanding, tool_result, clientVars, invocations>>

vars == <<pollVars, clientVars, invocations>>

PollNext ==
    \/ ToolTrigger \/ PollSend \/ PollRecv \/ PollSleep \/ PollTimedOut \/ ToolReturn
    \/ TimePasses

PollSpec == PollInit /\ [][PollNext]_vars

\* each step of a started call is eventually taken: the status query returns and
\* the sleep ends
PollLiveSpec ==
    PollSpec /\ WF_vars(PollSend) /\ WF_vars(PollRecv) /\ WF_vars(PollSleep)
             /\ WF_vars(PollTimedOut)

\* =========================================================================
\* The HTTP client: WXOAgentTrigger
\* =========================================================================
UuidLen == 36        \* len(agent_name) == 36
UuidHyphens == 4     \* agent_name.count('-') == 4

\* ---------------------------------------------------------- credentials
TokenOld == "tok-old"
TokenNew == "tok-new"

\* the record of the selected environment in the credentials file
EnvAuths ==
    {EmptyDict, [wxo_mcsp_token_expiry |-> 1], [wxo_mcsp_token |-> TokenOld]}
    \cup {[wxo_mcsp_token |-> TokenOld, wxo_mcsp_token_expiry |-> e] : e \in 0..MaxClock}

CredentialFiles ==
    {[exists |-> FALSE, auth |-> EmptyDict]}
    \cup {[exists |-> TRUE, auth |-> a] : a \in EnvAuths}

Environs == [WXO_INSTANCE : BOOLEAN, WXO_API_KEY : BOOLEAN]

\* what `orchestrate env activate <env>` does when it is run at time `now`:
\* exit 0 and a fresh record, exit 0 and no token written, exit 1, or no exit at
\* all (subprocess.run raises: timeout, command not found)
ActivateOutcomes(creds, now) ==
    { [raises |-> FALSE, returncode |-> 0,
       credentials |-> [exists |-> TRUE,
                        auth |-> [wxo_mcsp_token |-> TokenNew,
                                  wxo_mcsp_token_expiry |-> now + 1]]],
      [raises |-> FALSE, returncode |-> 0,
       credentials |-> [exists |-> TRUE, auth |-> EmptyDict]],
      [raises |-> FALSE, returncode |-> 1, credentials |-> creds],
      [raises |-> TRUE, returncode |-> 0, credentials |-> creds] }

ReadFile == [kind |-> "read", path |-> "credentials.yaml"]
AuthCommand == [kind |-> "subprocess", argv |-> "orchestrate env activate"]
\* result.returncode of the command, once it has exited
ExitStatus(code) == [kind |-> "exit", returncode |-> code]

\* mutant of RefreshToken: when the command exits non-zero the cached token is
\* handed back
RefreshTokenFallback(env, creds, activate) ==
    IF ~env.WXO_API_KEY
      THEN [token |-> None, effects |-> <<>>, credentials |-> creds]
    ELSE IF activate.raises
      THEN [token |-> None, effects |-> <<AuthCommand>>,
            credentials |-> activate.credentials]
    ELSE IF activate.returncode # 0
      THEN [token |-> Get(creds.auth, "wxo_mcsp_token", None),
            effects |-> <<AuthCommand, ExitStatus(activate.returncode)>>,
            credentials |-> activate.credentials]
    ELSE [token |-> Get(activate.credentials.auth, "wxo_mcsp_token", None),
          effects |-> <<AuthCommand, ExitStatus(activate.returncode), ReadFile>>,
          credentials |-> activate.credentials]

\* mutant of RefreshToken: the file is read again whatever the command's exit
\* status
RefreshTokenRereads(env, creds, activate) ==
    IF ~env.WXO_API_KEY
      THEN [token |-> None, effects |-> <<>>, credentials |-> creds]
    ELSE IF activate.raises
      THEN [token |-> None, effects |-> <<AuthCommand>>,
            credentials |-> activate.credentials]
    ELSE [token |-> Get(activate.credentials.auth, "wxo_mcsp_token", None),
          effects |-> <<AuthCommand, ExitStatus(activate.returncode), ReadFile>>,
          credentials |-> activate.credentials]

\* mutant of RefreshToken: the command is run whether or not an API key is set
RefreshTokenNoKeyCheck(env, creds, activate) ==
    IF activate.raises
      THEN [token |-> None, effects |-> <<AuthCommand>>,
            credentials |-> activate.credentials]
    ELSE IF activate.returncode # 0
      THEN [token |-> None, effects |-> <<AuthCommand, ExitStatus(activate.returncode)>>,
            credentials |-> activate.credentials]
    ELSE [token |-> Get(activate.credentials.auth, "wxo_mcsp_token", None),
          effects |-> <<AuthCommand, ExitStatus(activate.returncode), ReadFile>>,
          credentials |-> activate.credentials]

\* _refresh_token: the token (None when there is none), what it did, and the
\* credentials file afterwards
RefreshToken(env, creds, activate) ==
    IF ~env.WXO_API_KEY
      THEN [token |-> None, effects |-> <<>>, credentials |-> creds]
    ELSE IF activate.raises
      THEN [token |-> None, effects |-> <<AuthCommand>>,
            credentials |-> activate.credentials]
    ELSE IF activate.returncode # 0
      THEN [token |-> None, effects |-> <<AuthCommand, ExitStatus(activate.returncode)>>,
            credentials |-> activate.credentials]
    ELSE [token |-> Get(activate.credentials.auth, "wxo_mcsp_token", None),
          effects |-> <<AuthCommand, ExitStatus(activate.returncode), ReadFile>>,
          credentials |-> activate.credentials]

\* mutant of Expired: a token is expired from its expiry on
ExpiredInclusive(now, expiry) == now >= expiry

\* mutant of Expired: the comparison is turned round
ExpiredReversed(now, expiry) == now < expiry

\* time.time() > expiry
Expired(now, expiry) == now > expiry

Raised(msg, eff, creds) ==
    [raises |-> TRUE, msg |-> msg, effects |-> eff, credentials |-> creds]

Loaded(tok, eff, creds) ==
    [raises |-> FALSE, token |-> tok, effects |-> eff, credentials |-> creds]

\* mutant of LoadMcspToken: a missing record is answered by a refresh
LoadMcspTokenRefreshesMissing(env, creds, now, activate) ==
    IF ~creds.exists
      THEN Raised("Credentials file not found. Run 'orchestrate env activate remote' first.",
                  <<>>, creds)
    ELSE IF creds.auth = EmptyDict
             \/ (Truthy(Get(creds.auth, "wxo_mcsp_token", None))
                 /\ Expired(now, Get(creds.auth, "wxo_mcsp_token_expiry", 0)))
      THEN LET r == RefreshToken(env, creds, activate)
           IN  IF ~Truthy(r.token)
                 THEN Raised("MCSP token has expired and auto-refresh failed. Run 'orchestrate env activate remote' manually.",
                             <<ReadFile>> \o r.effects, r.credentials)
                 ELSE Loaded(r.token, <<ReadFile>> \o r.effects, r.credentials)
    ELSE IF ~Truthy(Get(creds.auth, "wxo_mcsp_token", None))
      THEN Raised("No wxo_mcsp_token found for environment 'remote'.", <<ReadFile>>, creds)
    ELSE Loaded(creds.auth.wxo_mcsp_token, <<ReadFile>>, creds)

\* _load_mcsp_token
LoadMcspToken(env, creds, now, activate) ==
    IF ~creds.exists
      THEN Raised("Credentials file not found. Run 'orchestrate env activate remote' first.",
                  <<>>, creds)
    ELSE IF creds.auth = EmptyDict
      THEN Raised("No credentials found for environment 'remote'. Run 'orchestrate env activate {env_name}' first.",
                  <<ReadFile>>, creds)
    ELSE IF ~Truthy(Get(creds.auth, "wxo_mcsp_token", None))
      THEN Raised("No wxo_mcsp_token found for environment 'remote'.", <<ReadFile>>, creds)
    ELSE IF Expired(now, Get(creds.auth, "wxo_mcsp_token_expiry", 0))
      THEN LET r == RefreshToken(env, creds, activate)
           IN  IF ~Truthy(r.token)
                 THEN Raised("MCSP token has expired and auto-refresh failed. Run 'orchestrate env activate remote' manually.",
                             <<ReadFile>> \o r.effects, r.credentials)
                 ELSE Loaded(r.token, <<ReadFile>> \o r.effects, r.credentials)
    ELSE Loaded(creds.auth.wxo_mcsp_token, <<ReadFile>>, creds)

\* WXOAgentTrigger.__init__
NewClient(env, creds, now, activate) ==
    IF ~env.WXO_INSTANCE
      THEN Raised("WXO_INSTANCE environment variable must be set", <<>>, creds)
      ELSE LoadMcspToken(env, creds, now, activate)

\* ------------------------------------------------------------ HTTP replies
MaxAgents == 2       \* longest agent list the platform returns
DescriptionMax == 100

\* None in a field whose text is kept as a sequence of characters
NoneChars == <<"N", "o", "n", "e">>

HttpOk(json) == [kind |-> "ok", json |-> json]
HttpError(code, text) == [kind |-> "http_error", status_code |-> code, text |-> text]
HttpExc(msg) == [kind |-> "exc", msg |-> msg]
\* a response whose status is not 2xx and is below 400: raise_for_status, which
\* raises for 400..599 only, lets it pass; its body parses as JSON or does not
HttpPassed(code, parses, json) ==
    [kind |-> "passed", status_code |-> code, parses |-> parses, json |-> json]

\* response.raise_for_status(); response.json(): what the caller goes on with
Received(reply) ==
    IF reply.kind = "passed"
      THEN IF reply.parses THEN HttpOk(reply.json)
           ELSE HttpExc("Expecting value: line 1 column 1 (char 0)")
      ELSE reply

\* str(e) of the HTTPError that raise_for_status raises
HttpErrorText(reply) == ToString(reply.status_code) \o " Error: " \o reply.text

FailureReplies ==
    {HttpError(401, "Unauthorized"), HttpError(500, ""), HttpExc("connection refused")}

PassedReplies == {HttpPassed(304, FALSE, EmptyDict), HttpPassed(300, TRUE, EmptyDict)}

IdOne == <<"i", "1">>
IdTwo == <<"i", "2">>
IdThree == <<"i", "3">>
IdFour == <<"i", "4">>

AgentDicts ==
    { [name |-> NameBob, id |-> IdOne],
      [name |-> NameBob, id |-> IdTwo],
      [name |-> NameBobLower, id |-> IdThree],
      [name |-> NameBob],
      [id |-> IdFour, description |-> <<"d", "e", "v">>] }

AgentLists == UNION {[1..n -> AgentDicts] : n \in 0..MaxAgents}

ListReplies == {HttpOk(l) : l \in AgentLists} \cup FailureReplies \cup PassedReplies

CompletionData ==
    { [choices |-> <<[message |-> [content |-> "hello"]]>>],
      [choices |-> <<[message |-> [content |-> "hello"]], [message |-> [content |-> "bye"]]>>],
      [choices |-> <<>>],
      EmptyDict,
      [choices |-> <<EmptyDict>>] }

CompletionReplies ==
    {HttpOk(d) : d \in CompletionData} \cup FailureReplies \cup PassedReplies

RunOne == <<"r", "1">>

RunData ==
    { [run_id |-> RunOne, thread_id |-> <<"t", "1">>, task_id |-> <<"k", "1">>,
       message_id |-> <<"m", "1">>],
      [run_id |-> RunOne],
      EmptyDict }

RunReplies == {HttpOk(d) : d \in RunData} \cup FailureReplies \cup PassedReplies

RunStatusReplies ==
    {HttpOk(d) : d \in StatusData} \cup FailureReplies \cup PassedReplies

\* the requests the client sends
GetAgents == [kind |-> "http", method |-> "GET", endpoint |-> "agents"]
PostCompletions(agent_id, user_input, limit) ==
    [kind |-> "http", method |-> "POST", endpoint |-> "chat/completions",
     agent_id |-> agent_id, content |-> user_input, timeout |-> limit]
PostRuns(agent_id, user_input) ==
    [kind |-> "http", method |-> "POST", endpoint |-> "runs", agent_id |-> agent_id,
     content |-> user_input]
GetRun(rid) == [kind |-> "http", method |-> "GET", endpoint |-> "runs/{run_id}", run_id |-> rid]

\* s[:n]
Prefix(s, n) == SubSeq(s, 1, Min(Len(s), n))

\* ----------------------------------------------------------- list_agents
ListAgents(response) ==
    LET reply == Received(response) IN
    IF reply.kind = "ok"
      THEN LET agents == reply.json
           IN  [success |-> TRUE, agent_count |-> Len(agents),
                agents |-> [i \in 1..Len(agents) |->
                              [name |-> Get(agents[i], "name", NoneChars),
                               id |-> Get(agents[i], "id", NoneChars),
                               description |->
                                   Prefix(Get(agents[i], "description", <<>>), DescriptionMax)]]]
    ELSE IF reply.kind = "http_error"
      THEN [success |-> FALSE, error |-> HttpErrorText(reply), status_code |-> reply.status_code]
    ELSE [success |-> FALSE, error |-> reply.msg]

\* ------------------------------------------------------ _resolve_agent_id
Count(s, c) == Cardinality({i \in 1..Len(s) : s[i] = c})

\* mutant of LooksLikeUuid: only the length is tested
LooksLikeUuidLenOnly(s) == Len(s) = UuidLen

\* mutant of LooksLikeUuid: the hyphens must stand where a UUID has them
LooksLikeUuidStrict(s) ==
    /\ Len(s) = UuidLen
    /\ {i \in 1..Len(s) : s[i] = "-"} = {9, 14, 19, 24}

\* len(agent_name) == 36 and agent_name.count('-') == 4
LooksLikeUuid(s) == Len(s) = UuidLen /\ Count(s, "-") = UuidHyphens

\* agent.get('name') == agent_name
NameMatches(agent, name) == Has(agent, "name") /\ agent.name = name

Matches(agents, name) == {i \in 1..Len(agents) : NameMatches(agents[i], name)}

\* mutant of FirstMatch: the last entry of that name wins
LastMatch(agents, name) ==
    CHOOSE i \in Matches(agents, name) : \A j \in Matches(agents, name) : j <= i

\* for agent in response.json(): if ...: return  -- the first entry of that name
FirstMatch(agents, name) ==
    CHOOSE i \in Matches(agents, name) : \A j \in Matches(agents, name) : i <= j

Resolved(id, eff) == [raises |-> FALSE, value |-> id, effects |-> eff]
Unresolved(msg, eff) == [raises |-> TRUE, msg |-> msg, effects |-> eff]

\* mutant of ResolveAgentId: the list fetched by the client's first resolution is
\* kept, later resolutions send no request
ResolveAgentIdCached(name, response) ==
    LET reply == Received(response)
        sent == IF named_calls = 0 THEN <<GetAgents>> ELSE <<>>
    IN  IF LooksLikeUuid(name) THEN Resolved(name, <<>>)
        ELSE IF reply.kind = "http_error" THEN Unresolved(HttpErrorText(reply), sent)
        ELSE IF reply.kind = "exc" THEN Unresolved(reply.msg, sent)
        ELSE IF Matches(reply.json, name) = {}
          THEN Unresolved("Agent '" \o Str(name) \o "' not found", sent)
        ELSE LET agent == reply.json[FirstMatch(reply.json, name)]
             IN  IF Has(agent, "id") THEN Resolved(agent.id, sent)
                 ELSE Unresolved("'id'", sent)

ResolveAgentId(name, response) ==
    LET reply == Received(response) IN
    IF LooksLikeUuid(name) THEN Resolved(name, <<>>)
    ELSE IF reply.kind = "http_error" THEN Unresolved(HttpErrorText(reply), <<GetAgents>>)
    ELSE IF reply.kind = "exc" THEN Unresolved(reply.msg, <<GetAgents>>)
    ELSE IF Matches(reply.json, name) = {}
      THEN Unresolved("Agent '" \o Str(name) \o "' not found", <<GetAgents>>)
    ELSE LET agent == reply.json[FirstMatch(reply.json, name)]
         IN  IF Has(agent, "id") THEN Resolved(agent.id, <<GetAgents>>)
             ELSE Unresolved("'id'", <<GetAgents>>)

\* ---------------------------------------------------------- _trigger_sync
\* mutant of TriggerSync: choices[0] is read whether or not there is one
TriggerSyncIndexed(agent_id, name, user_input, limit, response) ==
    LET reply == Received(response) IN
    IF reply.kind = "ok"
      THEN LET data == reply.json
               choices == Get(data, "choices", <<>>)
           IN  IF choices = <<>>
                 THEN [success |-> FALSE, error |-> "list index out of range",
                       agent_name |-> name]
               ELSE IF ~Has(choices[1], "message")
                 THEN [success |-> FALSE, error |-> "'message'", agent_name |-> name]
               ELSE [success |-> TRUE, agent_name |-> name, status |-> "completed",
                     response |-> choices[1].message.content, full_output |-> data]
    ELSE IF reply.kind = "http_error"
      THEN [success |-> FALSE, error |-> HttpErrorText(reply),
            status_code |-> reply.status_code, body |-> reply.text, agent_name |-> name]
    ELSE [success |-> FALSE, error |-> reply.msg, agent_name |-> name]

TriggerSync(agent_id, name, user_input, limit, response) ==
    LET reply == Received(response) IN
    IF reply.kind = "ok"
      THEN LET data == reply.json
               choices == Get(data, "choices", <<>>)
           IN  IF choices # <<>> /\ ~Has(choices[1], "message")
                 THEN [success |-> FALSE, error |-> "'message'", agent_name |-> name]
                 ELSE [success |-> TRUE, agent_name |-> name, status |-> "completed",
                       response |-> IF choices # <<>> THEN choices[1].message.content ELSE "",
                       full_output |-> data]
    ELSE IF reply.kind = "http_error"
      THEN [success |-> FALSE, error |-> HttpErrorText(reply),
            status_code |-> reply.status_code, body |-> reply.text, agent_name |-> name]
    ELSE [success |-> FALSE, error |-> reply.msg, agent_name |-> name]

\* --------------------------------------------------------- _trigger_async
\* mutant of TriggerAsync: only the run_id of the platform's answer is kept
TriggerAsyncRunIdOnly(agent_id, name, user_input, response) ==
    LET reply == Received(response) IN
    IF reply.kind = "ok"
      THEN [success |-> TRUE, agent_name |-> name, status |-> "started",
            thread_id |-> NoneChars,
            run_id |-> Get(reply.json, "run_id", NoneChars),
            task_id |-> NoneChars,
            message_id |-> NoneChars]
    ELSE IF reply.kind = "http_error"
      THEN [success |-> FALSE, error |-> HttpErrorText(reply),
            status_code |-> reply.status_code, body |-> reply.text, agent_name |-> name]
    ELSE [success |-> FALSE, error |-> reply.msg, agent_name |-> name]

TriggerAsync(agent_id, name, user_input, response) ==
    LET reply == Received(response) IN
    IF reply.kind = "ok"
      THEN LET run_data == reply.json
           IN  [success |-> TRUE, agent_name |-> name, status |-> "started",
                thread_id |-> Get(run_data, "thread_id", NoneChars),
                run_id |-> Get(run_data, "run_id", NoneChars),
                task_id |-> Get(run_data, "task_id", NoneChars),
                message_id |-> Get(run_data, "message_id", NoneChars)]
    ELSE IF reply.kind = "http_error"
      THEN [success |-> FALSE, error |-> HttpErrorText(reply),
            status_code |-> reply.status_code, body |-> reply.text, agent_name |-> name]
    ELSE [success |-> FALSE, error |-> reply.msg, agent_name |-> name]

\* ---------------------------------------------------------- trigger_agent
\* mutant of TriggerAgent: a submission answered 401 makes the client read the
\* credentials file again
TriggerAgentReloadsOn401(name, user_input, wait, limit, listReply, submitReply) ==
    LET r == ResolveAgentId(name, listReply)
        again == IF submitReply.kind = "http_error" /\ submitReply.status_code = 401
                   THEN <<ReadFile>> ELSE <<>>
    IN  IF r.raises
          THEN [result |-> [success |-> FALSE, error |-> r.msg, agent_name |-> name],
                effects |-> r.effects]
        ELSE IF wait
          THEN [result |-> TriggerSync(r.value, name, user_input, limit, submitReply),
                effects |-> r.effects \o <<PostCompletions(r.value, user_input, limit)>>
                                \o again]
        ELSE [result |-> TriggerAsync(r.value, name, user_input, submitReply),
              effects |-> r.effects \o <<PostRuns(r.value, user_input)>> \o again]

\* mutant of TriggerAgent: a failed resolution does not end the call, the name
\* is submitted as the identifier
TriggerAgentSubmitsAnyway(name, user_input, wait, limit, listReply, submitReply) ==
    LET r == ResolveAgentId(name, listReply)
        id == IF r.raises THEN name ELSE r.value
    IN  IF wait
          THEN [result |-> TriggerSync(id, name, user_input, limit, submitReply),
                effects |-> r.effects \o <<PostCompletions(id, user_input, limit)>>]
          ELSE [result |-> TriggerAsync(id, name, user_input, submitReply),
                effects |-> r.effects \o <<PostRuns(id, user_input)>>]

\* the dict returned and the requests sent, given what the platform answers to
\* the list request and to the submission
TriggerAgent(name, user_input, wait, limit, listReply, submitReply) ==
    LET r == ResolveAgentId(name, listReply)
    IN  IF r.raises
          THEN [result |-> [success |-> FALSE, error |-> r.msg, agent_name |-> name],
                effects |-> r.effects]
        ELSE IF wait
          THEN [result |-> TriggerSync(r.value, name, user_input, limit, submitReply),
                effects |-> r.effects \o <<PostCompletions(r.value, user_input, limit)>>]
        ELSE [result |-> TriggerAsync(r.value, name, user_input, submitReply),
              effects |-> r.effects \o <<PostRuns(r.value, user_input)>>]

\* --------------------------------------------------------- get_run_status
\* mutant of GetRunStatus: a run the platform reports as failed is reported with
\* success false
GetRunStatusByRunStatus(rid, response) ==
    LET reply == Received(response) IN
    IF reply.kind = "ok"
      THEN [success |-> Get(reply.json, "status", None) # "failed", data |-> reply.json]
    ELSE IF reply.kind = "http_error"
      THEN [success |-> FALSE, error |-> HttpErrorText(reply),
            status_code |-> reply.status_code, run_id |-> rid]
    ELSE [success |-> FALSE, error |-> reply.msg, run_id |-> rid]

GetRunStatus(rid, response) ==
    LET reply == Received(response) IN
    IF reply.kind = "ok" THEN [success |-> TRUE, data |-> reply.json]
    ELSE IF reply.kind = "http_error"
      THEN [success |-> FALSE, error |-> HttpErrorText(reply),
            status_code |-> reply.status_code, run_id |-> rid]
    ELSE [success |-> FALSE, error |-> reply.msg, run_id |-> rid]

\* -------------------------------------------------------- what callers pass
UuidCanonical ==
    Rep("1", 8) \o <<"-">> \o Rep("1", 4) \o <<"-">> \o Rep("1", 4) \o <<"-">>
        \o Rep("1", 4) \o <<"-">> \o Rep("1", 12)

\* n characters of which the first h are hyphens
Shape(n, h) == Rep("-", h) \o Rep("x", n - h)

AgentRefs ==
    {NameBob, NameBobLower, NameAda, UuidCanonical, Shape(UuidLen, UuidHyphens),
     Shape(UuidLen, UuidHyphens - 1), Shape(UuidLen, UuidHyphens + 1),
     Shape(UuidLen - 1, UuidHyphens), Shape(UuidLen + 1, UuidHyphens)}

\* a reference of the platform's identifier shape: 36 characters, exactly four of
\* them hyphens
UuidShaped(s) == Len(s) = 36 /\ Cardinality({i \in 1..Len(s) : s[i] = "-"}) = 4

DefaultTimeout == 120

MessageHi == <<"h", "i">>

\* the reply to a request that is not sent
NoReply == HttpExc("no request sent")

\* the submission endpoint of a waiting and of a non-waiting trigger
SubmitReplies(wait) == IF wait THEN CompletionReplies ELSE RunReplies

\* ------------------------------------------------------------ client calls
\* client = WXOAgentTrigger()
Construct ==
    /\ call = NoCall
    /\ poll_pc = "idle"
    /\ ~constructed
    /\ \E activate \in ActivateOutcomes(credentials, clock) :
        LET r == NewClient(environ, credentials, clock, activate)
        IN  /\ call' = [op |-> "construct"]
            /\ credentials' = r.credentials
            /\ effects' = r.effects
            /\ IF r.raises
                 THEN /\ raised' = r.msg
                      /\ UNCHANGED <<constructed, token, headers>>
                 ELSE /\ raised' = None
                      /\ constructed' = TRUE
                      /\ token' = r.token
                      /\ headers' = [Authorization |-> "Bearer " \o r.token,
                                     ContentType |-> "application/json"]
    /\ UNCHANGED <<environ, result, stdout, exit_code, named_calls, lists_fetched,
                   pollVars, invocations>>

\* client.list_agents()
ListAgentsCall ==
    /\ call = NoCall
    /\ poll_pc = "idle"
    /\ constructed
    /\ \E reply \in ListReplies :
        /\ call' = [op |-> "list_agents"]
        /\ result' = ListAgents(reply)
        /\ effects' = <<GetAgents>>
    /\ UNCHANGED <<environ, credentials, constructed, token, headers, raised, stdout,
                   exit_code, named_calls, lists_fetched, pollVars, invocations>>

\* client.trigger_agent(agent_name, user_input, wait, timeout)
TriggerAgentCall ==
    /\ call = NoCall
    /\ poll_pc = "idle"
    /\ constructed
    /\ named_calls < MaxCalls
    /\ \E name \in AgentRefs, wait \in BOOLEAN :
        \E listReply \in IF LooksLikeUuid(name) THEN {NoReply} ELSE ListReplies :
            \E submitReply \in IF ResolveAgentId(name, listReply).raises
                                 THEN {NoReply} ELSE SubmitReplies(wait) :
                LET r == TriggerAgent(name, MessageHi, wait, DefaultTimeout,
                                      listReply, submitReply)
                IN  /\ call' = [op |-> "trigger_agent", agent_name |-> name, wait |-> wait,
                                listed |-> listReply.kind,
                                agents |-> IF Received(listReply).kind = "ok"
                                             THEN Received(listReply).json ELSE <<>>,
                                submit |-> submitReply]
                    /\ result' = r.result
                    /\ effects' = r.effects
                    /\ named_calls' = IF UuidShaped(name) THEN named_calls
                                                           ELSE named_calls + 1
                    /\ lists_fetched' = lists_fetched + Count(r.effects, GetAgents)
    /\ UNCHANGED <<environ, credentials, constructed, token, headers, raised, stdout,
                   exit_code, pollVars, invocations>>

\* client.get_run_status(run_id)
GetRunStatusCall ==
    /\ call = NoCall
    /\ poll_pc = "idle"
    /\ constructed
    /\ \E reply \in RunStatusReplies :
        /\ call' = [op |-> "get_run_status", run_id |-> RunOne, reply |-> reply]
        /\ result' = GetRunStatus(RunOne, reply)
        /\ effects' = <<GetRun(RunOne)>>
    /\ UNCHANGED <<environ, credentials, constructed, token, headers, raised, stdout,
                   exit_code, named_calls, lists_fetched, pollVars, invocations>>

\* get_wxo_agent_status of the SDK tool, given what client.get_run_status
\* answers (or raises)
ToolStatus(rid, reply) ==
    IF reply.raises
      THEN [success |-> FALSE, error |-> "Status check error: " \o reply.msg,
            run_id |-> rid]
      ELSE LET status_data == reply.data
           IN  [success |-> TRUE, run_id |-> rid,
                status |-> Get(status_data, "status", None),
                agent_name |-> Get(Get(status_data, "agent", EmptyDict), "name", None),
                output |-> Get(status_data, "output", EmptyDict),
                created_at |-> Get(status_data, "created_at", None),
                updated_at |-> Get(status_data, "updated_at", None)]

\* get_wxo_agent_status(run_id), called in the platform's agent runtime
ToolStatusCall ==
    /\ call = NoCall
    /\ poll_pc = "idle"
    /\ ~constructed
    /\ \E reply \in StatusReplies :
        /\ call' = [op |-> "get_wxo_agent_status", run_id |-> RunOne, reply |-> reply]
        /\ result' = ToolStatus(RunOne, reply)
        /\ effects' = <<>>
    /\ UNCHANGED <<environ, credentials, constructed, token, headers, raised, stdout,
                   exit_code, named_calls, lists_fetched, pollVars, invocations>>

\* the caller has what the call returned (or raised)
Return ==
    /\ call # NoCall
    /\ call' = NoCall
    /\ result' = EmptyDict
    /\ raised' = None
    /\ effects' = <<>>
    /\ stdout' = <<>>
    /\ exit_code' = 0
    /\ UNCHANGED <<environ, credentials, constructed, token, headers, named_calls,
                   lists_fetched, pollVars, invocations>>

\* the client object is dropped (its process ends)
ClientDropped ==
    /\ call = NoCall
    /\ poll_pc = "idle"
    /\ constructed
    /\ constructed' = FALSE
    /\ token' = None
    /\ headers' = EmptyDict
    /\ named_calls' = 0
    /\ lists_fetched' = 0
    /\ UNCHANGED <<environ, credentials, call, result, raised, effects, stdout, exit_code,
                   pollVars, invocations>>

\* =========================================================================
\* The command line: main()
\* =========================================================================
ArgProg == <<"c", "l", "i">>
ArgList == <<"l", "i", "s", "t">>
ArgTrigger == <<"t", "r", "i", "g", "g", "e", "r">>
ArgStatus == <<"s", "t", "a", "t", "u", "s">>
ArgDelete == <<"d", "e", "l", "e", "t", "e">>
ArgNoWait == <<"-", "-", "n", "o", "-", "w", "a", "i", "t">>
TimeoutPrefix == <<"-", "-", "t", "i", "m", "e", "o", "u", "t", "=">>

Argvs ==
    { <<ArgProg>>,
      <<ArgProg, ArgList>>,
      <<ArgProg, ArgTrigger>>,
      <<ArgProg, ArgTrigger, NameBob>>,
      <<ArgProg, ArgTrigger, NameBob, MessageHi>>,
      <<ArgProg, ArgTrigger, UuidCanonical, MessageHi>>,
      <<ArgProg, ArgTrigger, NameBob, MessageHi, ArgNoWait>>,
      <<ArgProg, ArgTrigger, ArgNoWait, UuidCanonical, MessageHi>>,
      <<ArgProg, ArgTrigger, UuidCanonical, MessageHi, TimeoutPrefix \o <<"5">>>>,
      <<ArgProg, ArgTrigger, UuidCanonical, MessageHi, TimeoutPrefix \o <<"-", "1">>,
        TimeoutPrefix \o <<"3", "0">>>>,
      <<ArgProg, ArgTrigger, UuidCanonical, MessageHi, TimeoutPrefix \o <<"5", "=", "x">>>>,
      <<ArgProg, ArgTrigger, UuidCanonical, MessageHi, TimeoutPrefix \o <<"s">>>>,
      <<ArgProg, ArgTrigger, UuidCanonical, MessageHi, TimeoutPrefix>>,
      <<ArgProg, ArgStatus>>,
      <<ArgProg, ArgStatus, RunOne>>,
      <<ArgProg, ArgDelete>> }

\* arg.startswith(prefix)
StartsWith(s, prefix) == Len(s) >= Len(prefix) /\ SubSeq(s, 1, Len(prefix)) = prefix

\* arg.split('=')[1], for an arg that holds a '='
SplitSecond(s) ==
    LET eqs == {i \in 1..Len(s) : s[i] = "="}
        first == CHOOSE i \in eqs : \A j \in eqs : i <= j
        later == {i \in eqs : i > first}
        stop == IF later = {} THEN Len(s) + 1
                ELSE CHOOSE i \in later : \A j \in later : i <= j
    IN  SubSeq(s, first + 1, stop - 1)

Digits == <<"0", "1", "2", "3", "4", "5", "6", "7", "8", "9">>

IsDigit(c) == \E d \in 1..Len(Digits) : Digits[d] = c

DigitValue(c) == (CHOOSE d \in 1..Len(Digits) : Digits[d] = c) - 1

RECURSIVE Decimal(_)
Decimal(s) ==
    IF s = <<>> THEN 0 ELSE Decimal(SubSeq(s, 1, Len(s) - 1)) * 10 + DigitValue(s[Len(s)])

\* int(text): an optional sign and at least one digit, or ValueError
IntOf(s) ==
    LET signed == s # <<>> /\ s[1] \in {"-", "+"}
        body == IF signed THEN Tail(s) ELSE s
    IN  IF body = <<>> \/ \E i \in 1..Len(body) : ~IsDigit(body[i])
          THEN [raises |-> TRUE,
                msg |-> "invalid literal for int() with base 10: '" \o Str(s) \o "'"]
          ELSE [raises |-> FALSE,
                value |-> IF signed /\ s[1] = "-" THEN 0 - Decimal(body) ELSE Decimal(body)]

\* for arg in sys.argv: if arg.startswith('--timeout='): timeout = int(...)
\* the last --timeout= wins, the first that is no number raises
RECURSIVE ParseTimeout(_, _)
ParseTimeout(argv, sofar) ==
    IF argv = <<>> THEN [raises |-> FALSE, value |-> sofar]
    ELSE IF StartsWith(argv[1], TimeoutPrefix)
      THEN LET n == IntOf(SplitSecond(argv[1]))
           IN  IF n.raises THEN n ELSE ParseTimeout(Tail(argv), n.value)
    ELSE ParseTimeout(Tail(argv), sofar)

Text(t) == [kind |-> "text", text |-> t]
Json(v) == [kind |-> "json", value |-> v]

Exit(out, code, eff, creds) ==
    [stdout |-> out, exit_code |-> code, effects |-> eff, credentials |-> creds]

\* except Exception as e: print(json.dumps({'error': str(e)})); sys.exit(1)
MainExcept(msg, eff, creds) == Exit(<<Json([error |-> msg])>>, 1, eff, creds)

\* main(), given what the environment answers
MainRun(argv, env, creds, now, activate, listReply, submitReply, statusReply) ==
    IF Len(argv) < 2 THEN Exit(<<Text("Usage")>>, 1, <<>>, creds)
    ELSE LET c == NewClient(env, creds, now, activate)
             command == argv[2]
         IN  IF c.raises THEN MainExcept(c.msg, c.effects, c.credentials)
             ELSE IF command = ArgList
               THEN Exit(<<Json(ListAgents(listReply))>>, 0, c.effects \o <<GetAgents>>,
                         c.credentials)
             ELSE IF command = ArgTrigger
               THEN IF Len(argv) < 4
                      THEN Exit(<<Text("Error: trigger requires agent_name and message")>>,
                                1, c.effects, c.credentials)
                      ELSE LET wait == \A i \in 1..Len(argv) : argv[i] # ArgNoWait
                               limit == ParseTimeout(argv, DefaultTimeout)
                           IN  IF limit.raises
                                 THEN MainExcept(limit.msg, c.effects, c.credentials)
                                 ELSE LET r == TriggerAgent(argv[3], argv[4], wait,
                                                            limit.value, listReply,
                                                            submitReply)
                                      IN  Exit(<<Json(r.result)>>, 0,
                                               c.effects \o r.effects, c.credentials)
             ELSE IF command = ArgStatus
               THEN IF Len(argv) < 3
                      THEN Exit(<<Text("Error: status requires run_id")>>, 1, c.effects,
                                c.credentials)
                      ELSE Exit(<<Json(GetRunStatus(argv[3], statusReply))>>, 0,
                                c.effects \o <<GetRun(argv[3])>>, c.credentials)
             ELSE Exit(<<Text("Unknown command: " \o Str(command))>>, 1, c.effects,
                       c.credentials)

\* python -m superbob.cli <argv>: a process of its own, with its own client
Main ==
    /\ call = NoCall
    /\ poll_pc = "idle"
    /\ ~constructed
    /\ \E argv \in Argvs, activate \in ActivateOutcomes(credentials, clock) :
        LET up == Len(argv) >= 2 /\ ~NewClient(environ, credentials, clock, activate).raises
            lists == up /\ (argv[2] = ArgList
                            \/ (argv[2] = ArgTrigger /\ Len(argv) >= 4
                                /\ ~ParseTimeout(argv, DefaultTimeout).raises
                                /\ ~LooksLikeUuid(argv[3])))
            wait == \A i \in 1..Len(argv) : argv[i] # ArgNoWait
        IN  \E listReply \in IF lists THEN ListReplies ELSE {NoReply} :
              LET submits == up /\ argv[2] = ArgTrigger /\ Len(argv) >= 4
                             /\ ~ParseTimeout(argv, DefaultTimeout).raises
                             /\ ~ResolveAgentId(argv[3], listReply).raises
              IN  \E submitReply \in IF submits THEN SubmitReplies(wait) ELSE {NoReply},
                     statusReply \in IF up /\ argv[2] = ArgStatus /\ Len(argv) >= 3
                                       THEN RunStatusReplies ELSE {NoReply} :
                    LET r == MainRun(argv, environ, credentials, clock, activate,
                                     listReply, submitReply, statusReply)
                    IN  /\ call' = [op |-> "main", argv |-> argv,
                                    listed |-> listReply.kind,
                                    agents |-> IF Received(listReply).kind = "ok"
                                                 THEN Received(listReply).json
                                                 ELSE <<>>,
                                    submit |-> submitReply]
                        /\ stdout' = r.stdout
                        /\ exit_code' = r.exit_code
                        /\ effects' = r.effects
                        /\ credentials' = r.credentials
    /\ UNCHANGED <<environ, constructed, token, headers, result, raised, named_calls,
                   lists_fetched, pollVars, invocations>>

\* =========================================================================
\* The client and its command line together
\* =========================================================================
Init ==
    /\ clock = 0
    /\ poll_pc = "idle"
    /\ agent_name = NameBob
    /\ wait_for_response = TRUE
    /\ timeout = 0
    /\ run_id = None
    /\ start_time = 0
    /\ script = [k \in 1..ScriptLen |-> Ok([status |-> "running"])]
    /\ queries = 0
    /\ query_times = <<>>
    /\ observed = <<>>
    /\ outstanding = 0
    /\ tool_result = EmptyDict
    /\ environ \in Environs
    /\ credentials \in CredentialFiles
    /\ ClientIdle
    /\ invocations = [p \in Processes |-> NotStarted]

Next ==
    \/ Construct \/ ListAgentsCall \/ TriggerAgentCall \/ GetRunStatusCall
    \/ ToolStatusCall
    \/ Return \/ ClientDropped \/ Main \/ TimePasses

Spec == Init /\ [][Next]_vars

\* -------------------------------------------------------------------------
\* The client, its command line and the SDK tool, one call at a time, where the
\* instance is configured and the cached token is valid
\* -------------------------------------------------------------------------
AllInit ==
    /\ clock = 0
    /\ poll_pc = "idle"
    /\ agent_name = NameBob
    /\ wait_for_response = TRUE
    /\ timeout = 0
    /\ run_id = None
    /\ start_time = 0
    /\ script = [k \in 1..ScriptLen |-> Ok([status |-> "running"])]
    /\ queries = 0
    /\ query_times = <<>>
    /\ observed = <<>>
    /\ outstanding = 0
    /\ tool_result = EmptyDict
    /\ environ = [WXO_INSTANCE |-> TRUE, WXO_API_KEY |-> TRUE]
    /\ credentials = [exists |-> TRUE,
                      auth |-> [wxo_mcsp_token |-> TokenOld,
                                wxo_mcsp_token_expiry |-> MaxClock]]
    /\ ClientIdle
    /\ invocations = [p \in Processes |-> NotStarted]

AllNext == Next \/ PollNext

AllSpec == AllInit /\ [][AllNext]_vars

\* =========================================================================
\* The CLI-backed wrapper: WXOCLIWrapper.list_agents
\* =========================================================================
\* Text is a sequence of one-character strings.  The box-drawing characters of
\* the table the orchestrate CLI prints are written with ASCII stand-ins:
LightVertical == "|"         \* U+2502, the cell delimiter of a data row
HeavyVertical == "!"         \* U+2503, the cell delimiter of the header row
TopBorderStart == "~"        \* U+250F, first character of the top border
HeaderSeparatorStart == "+"  \* U+2521, first character of the header separator
BottomBorderStart == "_"     \* U+2514, first character of the bottom border
NewLine == "\n"

\* what str.strip() removes
Whitespace == {" ", NewLine, "\t", "\r"}

\* the longest table the CLI prints, in lines
MaxLines == 4

TopBorderRow == <<TopBorderStart, "=">>
HeaderRow == <<HeavyVertical, " ", "N", " ", HeavyVertical, "D", HeavyVertical>>
HeaderSeparatorRow == <<HeaderSeparatorStart, "=">>
BottomBorderRow == <<BottomBorderStart, "-">>
RowFive ==
    <<LightVertical, "a", LightVertical, "A", LightVertical, "d", LightVertical, "m",
      LightVertical, "z", LightVertical>>
RowTwo == <<LightVertical, " ", "b", " ", LightVertical, "B", LightVertical>>
RowGap ==
    <<LightVertical, " ", "c", LightVertical, " ", LightVertical, "e", " ", LightVertical,
      "n", LightVertical>>
RowBlank == <<LightVertical, " ", LightVertical, " ", LightVertical>>
TextRow == <<"x", " ", "y">>

TableRows ==
    {TopBorderRow, HeaderRow, HeaderSeparatorRow, BottomBorderRow, RowFive, RowTwo,
     RowGap, RowBlank, TextRow}

\* the tables of up to MaxLines lines
Tables == UNION {[1..n -> TableRows] : n \in 0..MaxLines}

\* the text of a table: each line ends with a newline
RECURSIVE Printed(_)
Printed(rows) ==
    IF rows = <<>> THEN <<>> ELSE Head(rows) \o <<NewLine>> \o Printed(Tail(rows))

\* what subprocess.run(['orchestrate', 'agents', 'list'], ...) does
Exited(returncode, out, err) ==
    [kind |-> "exit", returncode |-> returncode, stdout |-> out, stderr |-> err]
RunRaised(msg) == [kind |-> "raise", msg |-> msg]

RECURSIVE LStrip(_)
LStrip(text) ==
    IF text # <<>> /\ Head(text) \in Whitespace THEN LStrip(Tail(text)) ELSE text

RECURSIVE RStrip(_)
RStrip(text) ==
    IF text # <<>> /\ text[Len(text)] \in Whitespace
      THEN RStrip(SubSeq(text, 1, Len(text) - 1))
      ELSE text

\* str.strip()
Strip(text) == RStrip(LStrip(text))

\* sep in text
Contains(text, sep) == \E i \in 1..Len(text) : text[i] = sep

\* text.split(sep): the pieces between the separators, at least one
RECURSIVE Split(_, _)
Split(text, sep) ==
    IF ~Contains(text, sep) THEN <<text>>
    ELSE LET i == CHOOSE k \in 1..Len(text) :
                      text[k] = sep /\ \A j \in 1..(k - 1) : text[j] # sep
         IN  <<SubSeq(text, 1, i - 1)>> \o Split(SubSeq(text, i + 1, Len(text)), sep)

\* mutant of NonEmpty: only the empty first and last elements of the split are
\* removed
NonEmptyInside(parts) ==
    LET n == Len(parts)
        from == IF n > 0 /\ parts[1] = <<>> THEN 2 ELSE 1
        to == IF n > 0 /\ parts[n] = <<>> THEN n - 1 ELSE n
    IN  SubSeq(parts, from, to)

\* [p for p in parts if p]
NonEmpty(parts) == SelectSeq(parts, LAMBDA p : p # <<>>)

\* parts: the stripped, non-empty cells of a line
Parts(line) ==
    LET pieces == Split(line, LightVertical)
    IN  NonEmpty([k \in 1..Len(pieces) |-> Strip(pieces[k])])

\* the dict appended for a data row
AgentOf(parts) ==
    [name |-> parts[1],
     display_name |-> IF Len(parts) > 1 THEN parts[2] ELSE <<>>,
     description |-> IF Len(parts) > 2 THEN parts[3] ELSE <<>>,
     llm |-> IF Len(parts) > 3 THEN parts[4] ELSE <<>>]

\* mutant of LoopBody: the loop does not stop at the bottom border
LoopBodyPastBorder(loop, line) ==
    IF loop.stopped THEN loop
    ELSE IF StartsWith(line, <<HeaderSeparatorStart>>) THEN [loop EXCEPT !.in_data = TRUE]
    ELSE IF loop.in_data /\ Contains(line, LightVertical)
      THEN LET parts == Parts(line)
           IN  IF Len(parts) >= 1 /\ parts[1] # <<>>
                 THEN [loop EXCEPT !.agents = Append(@, AgentOf(parts))]
                 ELSE loop
    ELSE loop

\* one iteration of "for line in lines": continue at the header separator,
\* break at the bottom border, append an agent for a data row
LoopBody(loop, line) ==
    IF loop.stopped THEN loop
    ELSE IF StartsWith(line, <<HeaderSeparatorStart>>) THEN [loop EXCEPT !.in_data = TRUE]
    ELSE IF StartsWith(line, <<BottomBorderStart>>) THEN [loop EXCEPT !.stopped = TRUE]
    ELSE IF loop.in_data /\ Contains(line, LightVertical)
      THEN LET parts == Parts(line)
           IN  IF Len(parts) >= 1 /\ parts[1] # <<>>
                 THEN [loop EXCEPT !.agents = Append(@, AgentOf(parts))]
                 ELSE loop
    ELSE loop

RECURSIVE ForLines(_, _)
ForLines(loop, lines) ==
    IF lines = <<>> THEN loop ELSE ForLines(LoopBody(loop, Head(lines)), Tail(lines))

\* WXOCLIWrapper.list_agents, given what the subprocess did
WrapperListAgents(proc) ==
    IF proc.kind = "raise" THEN [success |-> FALSE, error |-> proc.msg]
    ELSE IF proc.returncode # 0 THEN [success |-> FALSE, error |-> proc.stderr]
    ELSE LET lines == Split(Strip(proc.stdout), NewLine)
             agents == ForLines([in_data |-> FALSE, stopped |-> FALSE, agents |-> <<>>],
                                lines).agents
         IN  [success |-> TRUE, agent_count |-> Len(agents), agents |-> agents]

\* the orchestrate CLI is run and its output parsed; rows is the table it prints
WrapperListAgentsCall ==
    /\ call = NoCall
    /\ \E rows \in Tables :
       \E proc \in IF rows = <<>>
                     THEN {Exited(0, <<>>, ""), Exited(1, <<>>, "not logged in"),
                           RunRaised("timed out")}
                     ELSE {Exited(0, Printed(rows), "")} :
        /\ call' = [op |-> "wrapper_list_agents", rows |-> rows, proc |-> proc]
        /\ result' = WrapperListAgents(proc)
        /\ effects' = <<[kind |-> "command",
                         argv |-> <<"orchestrate", "agents", "list">>]>>
    /\ UNCHANGED <<environ, credentials, constructed, token, headers, raised, stdout,
                   exit_code, named_calls, lists_fetched, pollVars, invocations>>

WrapperInit ==
    /\ clock = 0
    /\ poll_pc = "idle"
    /\ agent_name = NameBob
    /\ wait_for_response = TRUE
    /\ timeout = 0
    /\ run_id = None
    /\ start_time = 0
    /\ script = [k \in 1..ScriptLen |-> Ok([status |-> "running"])]
    /\ queries = 0
    /\ query_times = <<>>
    /\ observed = <<>>
    /\ outstanding = 0
    /\ tool_result = EmptyDict
    /\ environ = [WXO_INSTANCE |-> FALSE, WXO_API_KEY |-> FALSE]
    /\ credentials = [exists |-> FALSE, auth |-> EmptyDict]
    /\ ClientIdle
    /\ invocations = [p \in Processes |-> NotStarted]

WrapperNext == WrapperListAgentsCall \/ Return

WrapperSpec == WrapperInit /\ [][WrapperNext]_vars

\* =========================================================================
\* Properties of the polling loop
\* =========================================================================
Terminal(run_status) == run_status \in {"completed", "failed"}

\* the call got as far as the polling loop
Polled ==
    \/ poll_pc \in {"loop", "query", "sleep"}
    \/ /\ poll_pc = "done"
       /\ wait_for_response
       /\ (queries > 0 \/ Has(tool_result, "status"))

IsCompleted(r) == Get(r, "success", None) = TRUE /\ Get(r, "status", None) = "completed"
IsTimedOut(r) == Get(r, "success", None) = FALSE /\ Get(r, "status", None) = "timeout"
IsFailed(r) == Get(r, "success", None) = FALSE /\ Get(r, "status", None) # "timeout"

\* the status endpoint answers "completed" to the first query
FirstReplyCompleted ==
    /\ ~script[1].raises
    /\ Get(script[1].data, "status", None) = "completed"

\* the status endpoint never raises and never answers a terminal status
AlwaysNonTerminal ==
    \A k \in 1..ScriptLen :
        /\ ~script[k].raises
        /\ ~Terminal(Get(script[k].data, "status", None))

\* C3: a waiting trigger called with timeout <= 0 performs at least one status
\* query before it evaluates the deadline, so the timeout result is never
\* returned with zero status queries.
C3_QueryBeforeDeadline ==
    (poll_pc = "done" /\ Polled /\ timeout <= 0 /\ IsTimedOut(tool_result))
        => queries >= 1

\* C4: when the status endpoint answers "completed" to the first query, the call
\* returns the completed result after exactly one status query, for every
\* timeout (positive, zero or negative).
C4_CompletedOnFirstQuery ==
    (poll_pc = "done" /\ Polled /\ FirstReplyCompleted)
        => /\ IsCompleted(tool_result)
           /\ queries = 1

\* C5: when the status endpoint always answers a non-terminal status and the
\* timeout T is positive, the queries are issued at elapsed times 0, 2, 4, ...
\* strictly below T (all of them, once the call is over) and the result is the
\* timeout result with the run_id kept; with T = 3 exactly two queries are made.
C5_PollSchedule ==
    (Polled /\ AlwaysNonTerminal /\ timeout > 0)
        => /\ \A i \in 1..Len(query_times) :
                /\ query_times[i] = (i - 1) * PollInterval
                /\ query_times[i] < timeout
           /\ queries = Len(query_times)
           /\ poll_pc = "done"
                => /\ IsTimedOut(tool_result)
                   /\ tool_result.run_id = run_id
                   /\ \A k \in 0..(timeout - 1) :
                        k % PollInterval = 0
                            => \E i \in 1..Len(query_times) : query_times[i] = k
                   /\ timeout = 3 => query_times = <<0, 2>>

C5_Witness ==
    /\ poll_pc = "done"
    /\ Polled
    /\ AlwaysNonTerminal
    /\ timeout = 3
    /\ start_time > 0
    /\ queries = 2
    /\ IsTimedOut(tool_result)

\* C6: polling is sequential and stops at the first terminal observation: at most
\* one status query is outstanding, consecutive queries are separated by a
\* sleep, "completed" yields the completed result with the output text and the
\* raw output, "failed" yields the failed result with the error the platform
\* supplied, any other status leads to the sleep, and no query follows a
\* terminal observation.
C6_SequentialPolling ==
    /\ outstanding \in {0, 1}
    /\ outstanding = 1 <=> poll_pc = "query"
    /\ \A i \in 1..Len(query_times) :
            i > 1 => /\ query_times[i] >= query_times[i - 1] + PollInterval
                     /\ ~Terminal(observed[i - 1])
    /\ \A i \in 1..Len(observed) :
            Terminal(observed[i])
                => /\ i = Len(observed)
                   /\ queries = i
                   /\ poll_pc = "done"
    /\ (Len(observed) > 0 /\ observed[Len(observed)] = "completed")
            => LET output == Get(Reply(queries).data, "output", EmptyDict)
               IN  /\ IsCompleted(tool_result)
                   /\ tool_result.response = Get(output, "text", "")
                   /\ tool_result.full_output = output
                   /\ tool_result.run_id = run_id
    /\ (Len(observed) > 0 /\ observed[Len(observed)] = "failed")
            => /\ IsFailed(tool_result)
               /\ tool_result.status = "failed"
               /\ Has(Reply(queries).data, "error")
                    => tool_result.error = Reply(queries).data.error
    /\ (Len(observed) > 0 /\ Len(observed) = queries
            /\ ~Terminal(observed[Len(observed)]))
            => \/ poll_pc = "sleep"
               \/ /\ poll_pc = "loop"
                  /\ clock - start_time >= query_times[queries] + PollInterval
               \/ /\ poll_pc = "done"
                  /\ IsTimedOut(tool_result)
                  /\ clock - start_time >= query_times[queries] + PollInterval

C6_Witness ==
    /\ poll_pc = "done"
    /\ observed = <<"running", "failed">>
    /\ tool_result.error = "boom"
    /\ queries = 2

PollingActive == poll_pc \in {"loop", "query", "sleep"}

PollReturned ==
    /\ poll_pc = "done"
    /\ IsCompleted(tool_result) \/ IsFailed(tool_result) \/ IsTimedOut(tool_result)

\* C7: a waiting trigger always terminates: once polling has begun the call
\* eventually returns the completed, failed or timeout result, whatever the
\* status endpoint answers.
C7_PollingTerminates == PollingActive ~> PollReturned

C7_Witness ==
    /\ poll_pc = "done"
    /\ Polled
    /\ AlwaysNonTerminal
    /\ IsTimedOut(tool_result)
    /\ queries = QueryCap - 1

\* =========================================================================
\* Properties of the client and its command line
\* =========================================================================
ArgCommands == {ArgList, ArgTrigger, ArgStatus}

\* every dict a list, trigger or status operation has returned or printed
Results ==
    (IF call.op \in {"list_agents", "trigger_agent", "get_run_status"}
       THEN {result} ELSE {})
    \cup (IF call.op = "main" /\ Len(call.argv) >= 2 /\ call.argv[2] \in ArgCommands
            THEN {stdout[i].value : i \in {j \in 1..Len(stdout) : stdout[j].kind = "json"}}
            ELSE {})

\* C1: whatever error arises (configuration, authentication, resolution,
\* transport), no exception leaves the client for its caller, construction of
\* the client included: every operation ends by returning a result.
C1_NoErrorPropagates == raised = None

\* C2: every result returned or printed by a list, trigger or status operation
\* has the success flag, which is true just for the completed and started
\* outcomes of a trigger, and every failure carries a non-empty error text.
C2_ResultContract ==
    \A r \in Results :
        /\ Has(r, "success")
        /\ call.op = "trigger_agent"
             => (r.success <=> Get(r, "status", "") \in {"completed", "started"})
        /\ ~r.success => (Has(r, "error") /\ r.error # "")

\* a trigger_agent call was made, by a caller of the client or by the command line
TriggerRan ==
    \/ call.op = "trigger_agent"
    \/ /\ call.op = "main"
       /\ Len(call.argv) >= 4
       /\ call.argv[2] = ArgTrigger
       /\ exit_code = 0

TriggerName == IF call.op = "trigger_agent" THEN call.agent_name ELSE call.argv[3]

TriggerResult == IF call.op = "trigger_agent" THEN result ELSE stdout[1].value

HttpRequests == SelectSeq(effects, LAMBDA e : e.kind = "http")

ListRequests == SelectSeq(HttpRequests, LAMBDA e : e.endpoint = "agents")

Submissions ==
    SelectSeq(HttpRequests, LAMBDA e : e.endpoint \in {"chat/completions", "runs"})

\* C8: for an agent reference of UUID shape no list request is sent, and the
\* one submission carries that very string as the agent identifier.
C8_UuidFastPath ==
    (TriggerRan /\ UuidShaped(TriggerName))
        => /\ ListRequests = <<>>
           /\ Len(HttpRequests) = 1
           /\ Len(Submissions) = 1
           /\ Submissions[1].agent_id = TriggerName

C8_Witness ==
    /\ call.op = "trigger_agent"
    /\ call.agent_name = Shape(36, 4)
    /\ result.success
    /\ effects = <<PostRuns(Shape(36, 4), MessageHi)>>

EntryNamed(agent, name) == Has(agent, "name") /\ agent.name = name

\* C9: for an agent reference not of UUID shape exactly one list request is sent,
\* before anything else; if no entry of the list has that name, the trigger
\* returns the failure that names the agent and submits nothing.
C9_ResolveByName ==
    (TriggerRan /\ ~UuidShaped(TriggerName))
        => /\ Len(ListRequests) = 1
           /\ HttpRequests[1] = GetAgents
           /\ (call.listed = "ok"
                 /\ \A i \in 1..Len(call.agents) : ~EntryNamed(call.agents[i], TriggerName))
                => /\ TriggerResult.success = FALSE
                   /\ TriggerResult.error = "Agent '" \o Str(TriggerName) \o "' not found"
                   /\ TriggerResult.agent_name = TriggerName
                   /\ Submissions = <<>>

C9_Witness ==
    /\ call.op = "trigger_agent"
    /\ call.agent_name = Shape(36, 3)
    /\ call.listed = "ok"
    /\ Len(call.agents) = 2
    /\ result.success = FALSE
    /\ effects = <<GetAgents>>

\* C10: when a name is resolved, the identifier submitted is that of the first
\* entry, in list order, whose name equals the reference exactly; entries that
\* differ in case and later entries of the same name are never selected.
C10_FirstExactMatch ==
    (TriggerRan /\ ~UuidShaped(TriggerName) /\ Submissions # <<>>)
        => \E i \in 1..Len(call.agents) :
              /\ EntryNamed(call.agents[i], TriggerName)
              /\ \A j \in 1..(i - 1) : ~EntryNamed(call.agents[j], TriggerName)
              /\ Has(call.agents[i], "id")
              /\ Submissions[1].agent_id = call.agents[i].id

C10_Witness ==
    /\ call.op = "trigger_agent"
    /\ call.agent_name = NameBob
    /\ call.agents = <<[name |-> NameBob, id |-> IdTwo], [name |-> NameBob, id |-> IdOne]>>
    /\ Submissions # <<>>
    /\ Submissions[1].agent_id = IdTwo

C10_WitnessCase ==
    /\ call.op = "trigger_agent"
    /\ call.agent_name = NameBob
    /\ call.agents = <<[name |-> NameBobLower, id |-> IdThree], [name |-> NameBob, id |-> IdOne]>>
    /\ Submissions # <<>>
    /\ Submissions[1].agent_id = IdOne

\* the list fetched by a trigger call is consulted in entry order: the reference
\* resolves if it is an identifier already, or if the first entry of that name
\* has an id
ResolutionSucceeded ==
    \/ UuidShaped(TriggerName)
    \/ \E i \in 1..Len(call.agents) :
          /\ EntryNamed(call.agents[i], TriggerName)
          /\ \A j \in 1..(i - 1) : ~EntryNamed(call.agents[j], TriggerName)
          /\ Has(call.agents[i], "id")

\* the trigger was asked to wait for the reply
TriggerWait ==
    IF call.op = "trigger_agent" THEN call.wait
    ELSE \A i \in 1..Len(call.argv) : call.argv[i] # ArgNoWait

TriggerMessage == IF call.op = "trigger_agent" THEN MessageHi ELSE call.argv[4]

StatusQueries == SelectSeq(HttpRequests, LAMBDA e : e.endpoint = "runs/{run_id}")

\* C11: name resolution is never cached: after any number of trigger calls on a
\* client that passed a name (not an identifier), as many list requests have been
\* sent as such calls were made, one in each call, and it comes before that
\* call's submission.
C11_NoResolutionCache ==
    /\ lists_fetched = named_calls
    /\ (TriggerRan /\ ~UuidShaped(TriggerName))
          => /\ Len(ListRequests) = 1
             /\ HttpRequests = <<GetAgents>> \o Submissions

C11_Witness ==
    /\ call.op = "trigger_agent"
    /\ call.agent_name = NameBob
    /\ named_calls = MaxCalls
    /\ lists_fetched = MaxCalls
    /\ Len(Submissions) = 1

\* C12: a trigger goes from resolving to submitting to its result: a submission
\* is sent only when the resolution has succeeded, it is the last request of the
\* call and the only submission, on the endpoint the wait flag selects; a trigger
\* whose resolution fails returns success=false with an error and submits
\* nothing.
C12_ResolveThenSubmit ==
    TriggerRan
        => /\ Len(Submissions) <= 1
           /\ Submissions # <<>>
                => /\ ResolutionSucceeded
                   /\ HttpRequests[Len(HttpRequests)] = Submissions[1]
                   /\ Submissions[1].endpoint
                        = IF TriggerWait THEN "chat/completions" ELSE "runs"
           /\ ResolutionSucceeded => Len(Submissions) = 1
           /\ ~ResolutionSucceeded
                => /\ Submissions = <<>>
                   /\ TriggerResult.success = FALSE
                   /\ Has(TriggerResult, "error")
                   /\ ~Has(TriggerResult, "status")

C12_Witness ==
    /\ call.op = "trigger_agent"
    /\ call.agent_name = NameBob
    /\ call.agents = <<[name |-> NameBob], [name |-> NameBob, id |-> IdOne]>>
    /\ result = [success |-> FALSE, error |-> "'id'", agent_name |-> NameBob]
    /\ effects = <<GetAgents>>

\* C13: a waiting trigger whose completions request is answered 2xx with a
\* payload whose choices list is empty or absent returns the completed result:
\* success=true, status "completed", the empty string as response and the
\* payload as full_output.
C13_EmptyChoicesCompleted ==
    (TriggerRan /\ TriggerWait /\ call.submit.kind = "ok"
        /\ Get(call.submit.json, "choices", <<>>) = <<>>)
        => TriggerResult = [success |-> TRUE, agent_name |-> TriggerName,
                            status |-> "completed", response |-> "",
                            full_output |-> call.submit.json]

C13_Witness ==
    /\ call.op = "trigger_agent"
    /\ call.wait
    /\ call.submit = HttpOk([choices |-> <<>>])
    /\ result.success
    /\ result.response = ""
    /\ result.full_output = [choices |-> <<>>]

\* C14: a waiting trigger whose completions request is answered with a status
\* that is not 2xx returns success=false with that status as status_code and the
\* response body as body; a transport error returns success=false as well.
C14_NonSuccessStatusFails ==
    (TriggerRan /\ TriggerWait /\ Submissions # <<>>)
        => /\ call.submit.kind = "http_error"
                => /\ TriggerResult.success = FALSE
                   /\ TriggerResult.status_code = call.submit.status_code
                   /\ TriggerResult.body = call.submit.text
           /\ call.submit.kind = "passed"
                => /\ TriggerResult.success = FALSE
                   /\ Get(TriggerResult, "status_code", 0) = call.submit.status_code
           /\ call.submit.kind = "exc" => TriggerResult.success = FALSE

RunIdKeys == {"run_id", "thread_id", "task_id", "message_id"}

\* C15: a trigger that does not wait sends exactly one submission once its
\* reference is resolved (on the runs endpoint) and no status query; if the
\* platform accepts the submission, the result is the started result with the
\* run identifiers the platform supplied, None for those it did not.  The SDK
\* tool called with wait_for_response=False returns after create_run: it never
\* enters the polling loop and makes no status query.
C15_AsyncStarted ==
    /\ (TriggerRan /\ ~TriggerWait)
          => /\ StatusQueries = <<>>
             /\ Len(Submissions) <= 1
             /\ ResolutionSucceeded
                  => /\ Len(Submissions) = 1
                     /\ Submissions[1].endpoint = "runs"
                     /\ Submissions[1].content = TriggerMessage
             /\ call.submit.kind = "ok"
                  => /\ TriggerResult.success = TRUE
                     /\ TriggerResult.status = "started"
                     /\ TriggerResult.agent_name = TriggerName
                     /\ \A k \in RunIdKeys :
                          TriggerResult[k] = Get(call.submit.json, k, NoneChars)
    /\ (poll_pc # "idle" /\ ~wait_for_response)
          => /\ poll_pc = "done"
             /\ queries = 0
             /\ outstanding = 0
             /\ query_times = <<>>
             /\ tool_result.success => tool_result = StartedResult(agent_name, run_id)

C15_Witness ==
    /\ call.op = "trigger_agent"
    /\ ~call.wait
    /\ call.agent_name = NameBob
    /\ call.submit = HttpOk([run_id |-> RunOne])
    /\ result.run_id = RunOne
    /\ result.thread_id = NoneChars
    /\ effects = <<GetAgents, PostRuns(IdOne, MessageHi)>>

\* =========================================================================
\* Properties of the credentials
\* =========================================================================
\* this step is a construction of the client, by a caller or by main(), that gets
\* as far as loading the token
Loads ==
    /\ call = NoCall
    /\ environ.WXO_INSTANCE
    /\ \/ call'.op = "construct"
       \/ call'.op = "main" /\ Len(call'.argv) >= 2

\* the record of the environment, as the file has it before the step
CachedToken == Get(credentials.auth, "wxo_mcsp_token", None)
CachedExpiry == Get(credentials.auth, "wxo_mcsp_token_expiry", 0)
HasCachedToken == credentials.exists /\ Truthy(CachedToken)

NoStoreText == "Credentials file not found. Run 'orchestrate env activate remote' first."
NoRecordText ==
    "No credentials found for environment 'remote'. Run 'orchestrate env activate {env_name}' first."
AuthErrorText ==
    "MCSP token has expired and auto-refresh failed. Run 'orchestrate env activate remote' manually."

\* the step ended with this error: raised to the caller of the constructor,
\* printed by main()
FailedWith(msg) ==
    /\ call'.op = "construct"
         => /\ raised' = msg
            /\ ~constructed'
            /\ token' = None
            /\ headers' = EmptyDict
    /\ call'.op = "main" => stdout' = <<Json([error |-> msg])>>
    /\ \A i \in 1..Len(effects') : effects'[i].kind # "http"

\* C16: when the record's expiry lies in the future (now < expiry), the token
\* produced is the cached token of the record: the file is read once, the
\* authentication command is not run and nothing is refreshed.
C16_CachedTokenWhileFresh ==
    [][(Loads /\ HasCachedToken /\ clock < CachedExpiry)
          => /\ Count(effects', AuthCommand) = 0
             /\ Count(effects', ReadFile) = 1
             /\ credentials' = credentials
             /\ call'.op = "construct"
                  => /\ raised' = None
                     /\ constructed'
                     /\ token' = CachedToken
                     /\ headers'.Authorization = "Bearer " \o CachedToken
             /\ call'.op = "main"
                  => stdout' # <<Json([error |-> AuthErrorText])>>]_vars

C16_Witness ==
    /\ call.op = "construct"
    /\ constructed
    /\ token = TokenOld
    /\ effects = <<ReadFile>>
    /\ environ.WXO_API_KEY
    /\ Has(credentials.auth, "wxo_mcsp_token_expiry")
    /\ clock < credentials.auth.wxo_mcsp_token_expiry

\* C17: when the record's expiry is in the past, loading the token makes one
\* refresh attempt and no second one (the command runs once where an API key is
\* configured); if the command exits non-zero, the load ends with the error that
\* names the manual step, no token is produced, and no request is sent with the
\* expired token.
C17_ExpiredRefreshOnce ==
    [][(Loads /\ HasCachedToken /\ clock > CachedExpiry)
          => /\ Count(effects', AuthCommand) = (IF environ.WXO_API_KEY THEN 1 ELSE 0)
             /\ (\E i \in 1..Len(effects') :
                    effects'[i].kind = "exit" /\ effects'[i].returncode # 0)
                  => FailedWith(AuthErrorText)
             /\ (call'.op = "construct" /\ constructed')
                  => /\ effects' = <<ReadFile, AuthCommand, ExitStatus(0), ReadFile>>
                     /\ token' = credentials'.auth.wxo_mcsp_token]_vars

C17_Witness ==
    /\ call.op = "construct"
    /\ raised = AuthErrorText
    /\ effects = <<ReadFile, AuthCommand, ExitStatus(1)>>
    /\ ~constructed
    /\ token = None
    /\ credentials.auth.wxo_mcsp_token = TokenOld
    /\ Has(credentials.auth, "wxo_mcsp_token_expiry")
    /\ clock > credentials.auth.wxo_mcsp_token_expiry

\* C18: when the credentials file is absent, or has no record for the selected
\* environment, loading fails with the error that says so, before any refresh
\* (the authentication command is not run) and before any HTTP request.
C18_MissingStoreOrRecord ==
    [][(Loads /\ (~credentials.exists \/ credentials.auth = EmptyDict))
          => /\ FailedWith(IF ~credentials.exists THEN NoStoreText ELSE NoRecordText)
             /\ Count(effects', AuthCommand) = 0
             /\ Count(effects', ReadFile) = (IF credentials.exists THEN 1 ELSE 0)
             /\ credentials' = credentials]_vars

C18_Witness ==
    /\ call.op = "construct"
    /\ raised = NoRecordText
    /\ effects = <<ReadFile>>
    /\ environ.WXO_API_KEY
    /\ credentials = [exists |-> TRUE, auth |-> EmptyDict]

\* C19: the client never writes the credentials file: the file changes only in a
\* step in which the authentication command was run, and the client reads the
\* file a second time only right after that command has exited with status 0.
C19_StoreWrittenByCommandOnly ==
    [][/\ credentials' # credentials
            => /\ Loads
               /\ Count(effects', AuthCommand) = 1
       /\ Count(effects', ReadFile) <= 2
       /\ \A i \in 1..Len(effects') :
            (effects'[i] = ReadFile /\ \E j \in 1..(i - 1) : effects'[j] = ReadFile)
                => /\ i >= 3
                   /\ effects'[i - 1] = ExitStatus(0)
                   /\ effects'[i - 2] = AuthCommand]_vars

C19_Witness ==
    /\ call.op = "construct"
    /\ effects = <<ReadFile, AuthCommand, ExitStatus(0), ReadFile>>
    /\ token = TokenNew
    /\ credentials.auth.wxo_mcsp_token = TokenNew

\* =========================================================================
\* Properties of the command line
\* =========================================================================
\* missing command, missing arguments, unknown command
UsageError(argv) ==
    \/ Len(argv) < 2
    \/ argv[2] \notin ArgCommands
    \/ argv[2] = ArgTrigger /\ Len(argv) < 4
    \/ argv[2] = ArgStatus /\ Len(argv) < 3

\* C20: main() exits non-zero only for a usage error: a list, trigger or status
\* command that has its arguments exits 0 and prints one JSON object with the
\* success flag, whatever failed (configuration, authentication, resolution,
\* transport).
C20_ExitCodeForUsageOnly ==
    call.op = "main"
        => /\ exit_code # 0 => UsageError(call.argv)
           /\ ~UsageError(call.argv)
                => /\ Len(stdout) = 1
                   /\ stdout[1].kind = "json"
                   /\ Has(stdout[1].value, "success")

\* C21: every run of the list, trigger or status command that has its arguments
\* prints exactly one JSON object with the success field to standard output, on
\* success and on every failure path; a printed failure has an error text.
C21_OneJsonResultPrinted ==
    (call.op = "main" /\ Len(call.argv) >= 2 /\ call.argv[2] \in ArgCommands
        /\ ~UsageError(call.argv))
        => /\ Len(stdout) = 1
           /\ \A i \in 1..Len(stdout) :
                /\ stdout[i].kind = "json"
                /\ Has(stdout[i].value, "success")
                /\ stdout[i].value.success = FALSE => Has(stdout[i].value, "error")

\* =========================================================================
\* Properties of the token during the life of a client
\* =========================================================================
ClientOperations == {"list_agents", "trigger_agent", "get_run_status"}

\* C24: the bearer token is obtained once, when the client is constructed: a
\* list, trigger or status operation leaves the token, the Authorization header
\* and the credentials file as they are and does nothing but HTTP requests (no
\* read of the file, no authentication command), also when the token has expired
\* since the construction or a request is answered 401.
C24_TokenObtainedOnce ==
    [][(constructed /\ constructed')
          => /\ token' = token
             /\ headers' = headers
             /\ headers'.Authorization = "Bearer " \o token'
             /\ credentials' = credentials
             /\ call'.op \in ClientOperations
                  => \A i \in 1..Len(effects') : effects'[i].kind = "http"]_vars

C24_Witness ==
    /\ constructed
    /\ call.op = "trigger_agent"
    /\ Get(result, "status_code", 0) = 401
    /\ effects = <<PostCompletions(UuidCanonical, MessageHi, DefaultTimeout)>>
    /\ token = TokenOld
    /\ headers.Authorization = "Bearer tok-old"
    /\ Has(credentials.auth, "wxo_mcsp_token_expiry")
    /\ clock > credentials.auth.wxo_mcsp_token_expiry

\* the step went through _refresh_token: the command was run, or (no API key)
\* the load ended with the error of the failed refresh
RefreshInvoked ==
    \/ Count(effects', AuthCommand) = 1
    \/ call'.op = "construct" /\ raised' = AuthErrorText
    \/ call'.op = "main" /\ stdout' = <<Json([error |-> AuthErrorText])>>

\* C25: the refresh is invoked if and only if now > expiry, where a record that
\* has no expiry field counts as expiry 0 (so it is refreshed at every time
\* after 0); at now = expiry the cached token is returned and nothing is
\* refreshed.
C25_RefreshIffPastExpiry ==
    [][(Loads /\ HasCachedToken)
          => /\ RefreshInvoked <=> clock > CachedExpiry
             /\ (~Has(credentials.auth, "wxo_mcsp_token_expiry") /\ clock > 0)
                  => RefreshInvoked
             /\ clock = CachedExpiry
                  => /\ Count(effects', AuthCommand) = 0
                     /\ effects'[1] = ReadFile
                     /\ Count(effects', ReadFile) = 1
                     /\ credentials' = credentials
                     /\ call'.op = "construct"
                          => /\ constructed'
                             /\ token' = CachedToken]_vars

C25_Witness ==
    /\ call.op = "construct"
    /\ constructed
    /\ token = TokenOld
    /\ effects = <<ReadFile>>
    /\ environ.WXO_API_KEY
    /\ Has(credentials.auth, "wxo_mcsp_token_expiry")
    /\ clock = credentials.auth.wxo_mcsp_token_expiry
    /\ clock > 0

\* C26: when the token is expired and WXO_API_KEY is unset, the refresh yields no
\* token: the authentication command is not run, the credentials file is not
\* read a second time, and the load ends with the error of the failed refresh.
C26_NoApiKeyNoRefresh ==
    [][(Loads /\ HasCachedToken /\ clock > CachedExpiry /\ ~environ.WXO_API_KEY)
          => /\ effects' = <<ReadFile>>
             /\ credentials' = credentials
             /\ FailedWith(AuthErrorText)]_vars

C26_Witness ==
    /\ call.op = "construct"
    /\ raised = AuthErrorText
    /\ effects = <<ReadFile>>
    /\ ~environ.WXO_API_KEY
    /\ ~constructed
    /\ credentials.auth.wxo_mcsp_token = TokenOld
    /\ clock > Get(credentials.auth, "wxo_mcsp_token_expiry", 0)

\* =========================================================================
\* Properties of the results of the polling loop
\* =========================================================================
\* the last status query of the call raised
QueryRaised ==
    /\ poll_pc = "done"
    /\ queries > 0
    /\ Len(observed) < queries
    /\ Reply(queries).raises

\* C28: in a waiting trigger whose run was created, the completed result, the
\* failed result of a run status "failed" and the timeout result carry the
\* run_id of the creation; when a status query raises, the result is the failure
\* with the error text and the agent_name only, without the run_id.
C28_RunIdInResults ==
    (poll_pc = "done" /\ Polled)
        => /\ (IsCompleted(tool_result) \/ IsTimedOut(tool_result)
                 \/ Get(tool_result, "status", None) = "failed")
                => /\ ~QueryRaised
                   /\ tool_result.run_id = run_id
           /\ QueryRaised
                => /\ tool_result
                        = [success |-> FALSE,
                           error |-> "Agent trigger error: " \o Reply(queries).msg,
                           agent_name |-> agent_name]
                   /\ ~Has(tool_result, "run_id")

C28_Witness ==
    /\ poll_pc = "done"
    /\ run_id = "run-1"
    /\ observed = <<"running">>
    /\ queries = 2
    /\ QueryRaised
    /\ DOMAIN tool_result = {"success", "error", "agent_name"}

\* =========================================================================
\* Properties of the status query
\* =========================================================================
\* C27: a status query reports success=true whenever the status request itself
\* succeeds, whatever run status the platform returns ("failed" included);
\* success=false is returned only when the request fails (HTTP error status,
\* transport failure, a body that cannot be read), and then the result carries
\* the run_id that was queried and an error text.
C27_StatusQuerySuccess ==
    /\ call.op = "get_run_status"
          => /\ call.reply.kind = "ok"
                  => result = [success |-> TRUE, data |-> call.reply.json]
             /\ call.reply.kind \in {"http_error", "exc"} => result.success = FALSE
             /\ result.success = FALSE
                  => /\ Received(call.reply).kind \in {"http_error", "exc"}
                     /\ result.run_id = call.run_id
                     /\ Has(result, "error")
                     /\ ~Has(result, "data")
    /\ call.op = "get_wxo_agent_status"
          => /\ ~call.reply.raises
                  => /\ result.success = TRUE
                     /\ result.status = Get(call.reply.data, "status", None)
                     /\ result.output = Get(call.reply.data, "output", EmptyDict)
             /\ result.success = FALSE
                  => /\ call.reply.raises
                     /\ result.error = "Status check error: " \o call.reply.msg
             /\ result.run_id = call.run_id

C27_Witness ==
    /\ call.op = "get_run_status"
    /\ call.reply = HttpOk([status |-> "failed", error |-> "boom"])
    /\ result = [success |-> TRUE, data |-> [status |-> "failed", error |-> "boom"]]

\* =========================================================================
\* Properties of the CLI-backed table parser
\* =========================================================================
WrapperParsed == call.op = "wrapper_list_agents" /\ result.success = TRUE

IsHeaderSeparator(row) == row # <<>> /\ row[1] = HeaderSeparatorStart
IsBottomBorder(row) == row # <<>> /\ row[1] = BottomBorderStart

\* the k-th smallest number of a set
Kth(S, k) == CHOOSE x \in S : Cardinality({y \in S : y < x}) = k - 1

\* the text without the white space around it
Trimmed(text) ==
    LET inked == {i \in 1..Len(text) : text[i] \notin Whitespace}
    IN  IF inked = {} THEN <<>>
        ELSE SubSeq(text, Kth(inked, 1), Kth(inked, Cardinality(inked)))

\* the cells of a row: what stands between two neighbouring delimiters or ends
CellsOf(row) ==
    LET bounds == {0, Len(row) + 1} \cup {i \in 1..Len(row) : row[i] = LightVertical}
    IN  [k \in 1..(Cardinality(bounds) - 1) |->
            Trimmed(SubSeq(row, Kth(bounds, k) + 1, Kth(bounds, k + 1) - 1))]

\* the non-empty cells of a row, in order
FilledCells(row) ==
    LET cells == CellsOf(row)
        filled == {k \in 1..Len(cells) : cells[k] # <<>>}
    IN  [n \in 1..Cardinality(filled) |-> cells[Kth(filled, n)]]

\* the rows after the first header separator and before the first bottom border
BetweenBorders(rows) ==
    {i \in 1..Len(rows) :
        /\ \E j \in 1..(i - 1) : IsHeaderSeparator(rows[j])
        /\ \A k \in 1..i : ~IsBottomBorder(rows[k])
        /\ ~IsHeaderSeparator(rows[i])}

\* the data rows: delimited rows between the borders
DataRowsOf(rows) ==
    {i \in BetweenBorders(rows) : \E c \in 1..Len(rows[i]) : rows[i][c] = LightVertical}

\* the data rows with a cell that is not empty
FilledRowsOf(rows) == {i \in DataRowsOf(rows) : FilledCells(rows[i]) # <<>>}

AgentFields == <<"name", "display_name", "description", "llm">>

\* C23: the table parser produces agents only from the rows between the header
\* separator row and the bottom border row, one per data row there and in their
\* order: header and border rows produce none, rows after the bottom border are
\* ignored, and a data row with fewer than four cells yields an agent whose
\* missing trailing fields are the empty string.
C23_AgentsFromDataRows ==
    WrapperParsed =>
        LET from == FilledRowsOf(call.rows)
        IN  /\ Len(result.agents) = Cardinality(from)
            /\ result.agent_count = Cardinality(from)
            /\ \A n \in 1..Len(result.agents) :
                 LET row == call.rows[Kth(from, n)]
                     agent == result.agents[n]
                 IN  /\ DOMAIN agent = {AgentFields[k] : k \in 1..4}
                     /\ agent.name = FilledCells(row)[1]
                     /\ \A k \in 2..4 :
                          Len(FilledCells(row)) < k => agent[AgentFields[k]] = <<>>

\* a separator, a row of two cells, the bottom border and a row after it
C23_Witness ==
    /\ WrapperParsed
    /\ call.rows = <<HeaderSeparatorRow, RowTwo, BottomBorderRow, RowFive>>
    /\ result.agents = <<[name |-> <<"b">>, display_name |-> <<"B">>,
                          description |-> <<>>, llm |-> <<>>]>>

TokenOf(p) == IF p = 1 THEN "tok-1" ELSE "tok-2"

\* what the activate command of process p does to the file as it stands
ActivateBy(p, creds, now) ==
    {IF ~o.raises /\ o.returncode = 0 /\ Has(o.credentials.auth, "wxo_mcsp_token")
       THEN [o EXCEPT !.credentials.auth.wxo_mcsp_token = TokenOf(p)]
       ELSE o : o \in ActivateOutcomes(creds, now)}

\* _load_mcsp_token goes on to the subprocess: a token is there, it is past its
\* expiry and an API key is set
StartsCommand(env, creds, now) ==
    /\ creds.exists
    /\ Truthy(Get(creds.auth, "wxo_mcsp_token", None))
    /\ Expired(now, Get(creds.auth, "wxo_mcsp_token_expiry", 0))
    /\ env.WXO_API_KEY

\* mutant of RereadToken: the token found before the refresh is kept
RereadTokenCached(inv, creds) == inv.cached

\* creds.get('auth', {}).get(env_name, {}).get('wxo_mcsp_token') of the file
\* as it is read after the command
RereadToken(inv, creds) == Get(creds.auth, "wxo_mcsp_token", None)

\* the process ends: it holds a token, or the constructor raised
Ended(inv, tok, msg) == [inv EXCEPT !.pc = "done", !.token = tok, !.raised = msg]

\* process p is started and reads the credentials file
RaceLoad(p) ==
    /\ invocations[p].pc = "start"
    /\ invocations' =
         [invocations EXCEPT ![p] =
            IF StartsCommand(environ, credentials, clock)
              THEN [@ EXCEPT !.pc = "command",
                             !.cached = credentials.auth.wxo_mcsp_token]
              ELSE LET r == NewClient(environ, credentials, clock,
                                      CHOOSE o \in ActivateOutcomes(credentials, clock) :
                                          TRUE)
                   IN  IF r.raises THEN Ended(@, None, r.msg)
                       ELSE Ended([@ EXCEPT !.cached = r.token], r.token, None)]
    /\ UNCHANGED <<pollVars, clientVars>>

\* the activate command of process p rewrites the file and exits, or
\* subprocess.run raises
RaceCommandExits(p) ==
    /\ invocations[p].pc = "command"
    /\ \E o \in ActivateBy(p, credentials, clock) :
        /\ credentials' = o.credentials
        /\ invocations' =
             [invocations EXCEPT ![p] =
                IF o.raises THEN Ended(@, None, AuthErrorText)
                ELSE IF o.returncode # 0
                  THEN Ended([@ EXCEPT !.returncode = o.returncode], None, AuthErrorText)
                ELSE [@ EXCEPT !.pc = "reread", !.returncode = o.returncode]]
    /\ UNCHANGED <<pollVars, environ, constructed, token, headers, call, result, raised,
                   effects, stdout, exit_code, named_calls, lists_fetched>>

\* process p reads the file again, as whichever command wrote it last left it
RaceReread(p) ==
    /\ invocations[p].pc = "reread"
    /\ invocations' =
         [invocations EXCEPT ![p] =
            LET tok == RereadToken(@, credentials)
            IN  IF Truthy(tok) THEN Ended(@, tok, None)
                ELSE Ended(@, None, AuthErrorText)]
    /\ UNCHANGED <<pollVars, clientVars>>

\* the next step of process p
RaceStep(p) == RaceLoad(p) \/ RaceCommandExits(p) \/ RaceReread(p)

RaceInit ==
    /\ clock = 0
    /\ poll_pc = "idle"
    /\ agent_name = NameBob
    /\ wait_for_response = TRUE
    /\ timeout = 0
    /\ run_id = None
    /\ start_time = 0
    /\ script = [k \in 1..ScriptLen |-> Ok([status |-> "running"])]
    /\ queries = 0
    /\ query_times = <<>>
    /\ observed = <<>>
    /\ outstanding = 0
    /\ tool_result = EmptyDict
    /\ environ \in {e \in Environs : e.WXO_INSTANCE}
    /\ credentials \in CredentialFiles
    /\ ClientIdle
    /\ invocations = [p \in Processes |-> NotStarted]

RaceNext == (\E p \in Processes : RaceStep(p)) \/ TimePasses

RaceSpec == RaceInit /\ [][RaceNext]_vars

\* -------------------------------------------------------------------------
\* Properties of the two processes
\* -------------------------------------------------------------------------
\* the refresh command of process p is running
InFlight(p) == invocations[p].pc = "command"

\* process p, which found the token expired and started the command, ends in
\* this step
EndsAfterRefresh(p) ==
    /\ invocations[p].pc \in {"command", "reread"}
    /\ invocations'[p].pc = "done"

\* a process that has not ended can take its next step, whatever the other does
NeverWaits == \A p \in Processes : invocations[p].pc # "done" => ENABLED RaceStep(p)

\* C22: two processes that both find the token expired run the refresh command
\* without excluding one another; each of them ends either holding the token it
\* read from the file after its own command exited 0, or with the error that
\* the token has expired and the refresh failed; and neither ever waits for the
\* other: its next step is enabled wherever the other process stands.
C22_RefreshRace ==
    /\ []NeverWaits
    /\ [][\A p \in Processes :
            /\ EndsAfterRefresh(p) =>
                 \/ /\ invocations'[p].raised = AuthErrorText
                    /\ invocations'[p].token = None
                 \/ /\ invocations[p].pc = "reread"
                    /\ invocations[p].returncode = 0
                    /\ invocations'[p].raised = None
                    /\ Truthy(invocations'[p].token)
                    /\ invocations'[p].token = Get(credentials.auth, "wxo_mcsp_token", None)
            /\ (invocations[p].pc # "reread" /\ invocations'[p].pc = "reread")
                 => /\ invocations[p].pc = "command"
                    /\ invocations'[p].returncode = 0
            /\ (~InFlight(p) /\ InFlight(p)')
                 => /\ invocations[p].pc = "start"
                    /\ Expired(clock, Get(credentials.auth, "wxo_mcsp_token_expiry", 0))
          ]_vars

\* both refresh commands are running at once
C22_Witness == InFlight(1) /\ InFlight(2)
====
